---------------------------- MODULE Spec2Model ----------------------------
(***************************************************************************)
(* Materavista: a web front end for LAMMPS molecular-dynamics runs.        *)
(*                                                                         *)
(* Three parts of the repository are modelled, each with its own           *)
(* specification over the same variables:                                  *)
(*                                                                         *)
(*   SpecStore    the persisted tables (potential_files, simulation_inputs,*)
(*                simulations) and the GraphQL mutations over them;        *)
(*   SpecRun      one run request on its way from runLAMMPSSimulation      *)
(*                through the /api/simulate handler to the backend and     *)
(*                back;                                                    *)
(*   SpecPipeline the backend's job pipeline (gateway, resolver, runner,   *)
(*                cancellation, retention), which runs in the backend      *)
(*                service and is taken from the specification's wording.   *)
(***************************************************************************)
EXTENDS Integers, Sequences, FiniteSets, TLC

VARIABLES
    \* ---- the persisted tables (hasura/migrations/.../up.sql)
    potential_files,     \* id -> [filename, content]
    simulation_inputs,   \* id -> [content, potential_file_id]
    simulations,         \* id -> the row of table simulations
    nextPotentialFile,   \* gen_random_uuid(): the next unused id of each table
    nextInput,
    nextSimulation,
    \* ---- one run request (services/api.ts, pages/api/simulate.ts)
    cpc,                 \* runLAMMPSSimulation: "idle", "waiting", "done"
    clientResult,        \* the value runLAMMPSSimulation resolved to
    httpReq,             \* the request that reached /api/simulate
    hpc,                 \* the handler: "idle", "awaiting", "responded"
    hres,                \* the handler's response [status, body]
    backendUrl,          \* process.env.NEXT_PUBLIC_API_URL is set
    backendReq,          \* the body posted to <backend>/run-lammps/
    backendCalls,        \* axios.post calls made for this request
    engine,              \* the backend's engine run: "none", "running", "finished"
    backendResp,         \* the backend's answer [status, data]
    \* ---- the backend's job pipeline
    jobs,                \* id -> job record
    nextJob,
    procs,               \* jobs with a live engine subprocess
    spawned,             \* kept jobs for which a subprocess was spawned
    artifacts,           \* jobs whose trajectory artifact is stored
    potentialStore,      \* potential-file ids the resolver can resolve
    aged,                \* jobs older than the retention threshold
    cancelRequested,     \* jobs whose cancellation was asked for
    lastOp,              \* "cleanup" when the last pipeline step was a cleanup
    lastCleanup,         \* [ids, count, repeat] of the last cleanup call
    \* ---- one request to another API route (pages/api/*.ts)
    rReq,                \* the request [route, method, arg]
    rpc,                 \* the handler: "idle", "parsing", "awaiting", "responded"
    rres,                \* the handler's response [status, kind, error]
    rTrace,              \* what the handler did: "validate", "env", "parse", "call"
    rEnv,                \* the route's environment variable is set
    rUp,                 \* the upstream's response as axios received it
    \* ---- the observable calculator and the results view
    traj,                \* the parsed trajectory: a sequence of frames
    calcOut,             \* the calculator's result for traj, once computed
    \* ---- the wizard page (pages/index.tsx and its components)
    inputContent,        \* Home: the committed script
    simulationResults,   \* Home: the last run's results, or Null
    isLoading,           \* Home: the flag shared by generation and run
    showChat,            \* Home: the chat assistant is open
    currentStep,         \* Home: the step shown
    potentialFileId,     \* Home: the potential file attached to runs
    uploadedFile,        \* PotentialFileSelector: the file it shows
    usePotentialFile,    \* PotentialFileSelector: the checkbox
    isEditing,           \* InputEditor: editing mode
    editableContent,     \* InputEditor: the editable buffer
    runsInFlight,        \* run requests not yet resolved
    generating,          \* a generation request is outstanding
    uploads,             \* upload requests not yet settled
    resultsOf,           \* the script simulationResults came from
    wizardOp,            \* the last wizard handler that ran
    \* ---- the simulation detail page (pages/simulations/[id].tsx)
    simulation,          \* the job record the page fetched, or Null
    view                 \* what the page renders for it

storeVars == <<potential_files, simulation_inputs, simulations,
               nextPotentialFile, nextInput, nextSimulation>>
runVars == <<cpc, clientResult, httpReq, hpc, hres, backendUrl, backendReq,
             backendCalls, engine, backendResp>>
pipelineVars == <<jobs, nextJob, procs, spawned, artifacts, potentialStore,
                  aged, cancelRequested, lastOp, lastCleanup>>
routeVars == <<rReq, rpc, rres, rTrace, rEnv, rUp>>
calcVars == <<traj, calcOut>>
wizardVars == <<inputContent, simulationResults, isLoading, showChat,
                currentStep, potentialFileId, uploadedFile, usePotentialFile,
                isEditing, editableContent, runsInFlight, generating, uploads,
                resultsOf, wizardOp>>
detailVars == <<simulation, view>>
vars == <<storeVars, runVars, pipelineVars, routeVars, calcVars, wizardVars,
          detailVars>>

-----------------------------------------------------------------------------
(* Bounds of the model. *)

MaxPotentialFiles == 1
MaxInputs == 1
MaxSimulations == 1
MaxJobs == 2
MaxFrames == 3
MaxAtoms == 2

-----------------------------------------------------------------------------
(* Values. *)

\* SQL NULL and a JavaScript undefined (a field that is absent).
NULL == "<null>"
Undefined == "<undefined>"

\* File names and contents a mutation may carry.
Texts == {"a", "b"}

\* The statuses the data model names, and a string that is none of them.
StatusValues == {"pending", "running", "completed", "failed"}
TerminalStatuses == {"completed", "failed"}
StatusStrings == StatusValues \cup {"archived"}

-----------------------------------------------------------------------------
(* The persisted tables and the mutations of graphql/mutations.ts.         *)

\* Table simulations: a new row has status 'pending' unless given, and every
\* nullable column NULL.
NewSimulationRow(input_id, status) ==
    [status |-> status, input_id |-> input_id,
     trajectory_file_path |-> NULL, velocity_file_path |-> NULL,
     msd |-> NULL, kinetic_energy |-> NULL, frames |-> NULL, atoms |-> NULL,
     error |-> NULL]

\* A NULL potential_file_id (row ids are 1, 2, ...).
NoRef == 0

\* potential_file_id UUID REFERENCES potential_files(id)
PotentialFileRefOk(ref) == ref = NoRef \/ ref \in DOMAIN potential_files

\* input_id UUID NOT NULL REFERENCES simulation_inputs(id)
InputRefOk(ref) == ref \in DOMAIN simulation_inputs

Extend(f, k, v) == [x \in DOMAIN f \cup {k} |-> IF x = k THEN v ELSE f[x]]
Remove(f, k) == [x \in DOMAIN f \ {k} |-> f[x]]

CreatePotentialFile(filename, content) ==
    /\ nextPotentialFile <= MaxPotentialFiles
    /\ potential_files' = Extend(potential_files, nextPotentialFile,
                                 [filename |-> filename, content |-> content])
    /\ nextPotentialFile' = nextPotentialFile + 1
    /\ UNCHANGED <<simulation_inputs, simulations, nextInput, nextSimulation>>

UpdatePotentialFile(id, filename, content) ==
    /\ id \in DOMAIN potential_files
    /\ potential_files' = [potential_files EXCEPT
                              ![id] = [filename |-> filename, content |-> content]]
    /\ UNCHANGED <<simulation_inputs, simulations,
                   nextPotentialFile, nextInput, nextSimulation>>

DeletePotentialFile_Unchecked(id) ==
    /\ id \in DOMAIN potential_files
    /\ potential_files' = Remove(potential_files, id)
    /\ UNCHANGED <<simulation_inputs, simulations,
                   nextPotentialFile, nextInput, nextSimulation>>

\* A row that a simulation_inputs row references cannot be deleted.
DeletePotentialFile(id) ==
    /\ id \in DOMAIN potential_files
    /\ \A i \in DOMAIN simulation_inputs :
           simulation_inputs[i].potential_file_id # id
    /\ potential_files' = Remove(potential_files, id)
    /\ UNCHANGED <<simulation_inputs, simulations,
                   nextPotentialFile, nextInput, nextSimulation>>

CreateSimulationInput(content, potential_file_id) ==
    /\ nextInput <= MaxInputs
    /\ PotentialFileRefOk(potential_file_id)
    /\ simulation_inputs' = Extend(simulation_inputs, nextInput,
           [content |-> content, potential_file_id |-> potential_file_id])
    /\ nextInput' = nextInput + 1
    /\ UNCHANGED <<potential_files, simulations,
                   nextPotentialFile, nextSimulation>>

UpdateSimulationInput(id, content, potential_file_id) ==
    /\ id \in DOMAIN simulation_inputs
    /\ PotentialFileRefOk(potential_file_id)
    /\ simulation_inputs' = [simulation_inputs EXCEPT
           ![id] = [content |-> content, potential_file_id |-> potential_file_id]]
    /\ UNCHANGED <<potential_files, simulations,
                   nextPotentialFile, nextInput, nextSimulation>>

\* A row that a simulations row references cannot be deleted.
DeleteSimulationInput(id) ==
    /\ id \in DOMAIN simulation_inputs
    /\ \A s \in DOMAIN simulations : simulations[s].input_id # id
    /\ simulation_inputs' = Remove(simulation_inputs, id)
    /\ UNCHANGED <<potential_files, simulations,
                   nextPotentialFile, nextInput, nextSimulation>>

\* insert_simulations_one(object: {input_id: $input_id, status: "pending"})
CreateSimulation(input_id) ==
    /\ nextSimulation <= MaxSimulations
    /\ InputRefOk(input_id)
    /\ simulations' = Extend(simulations, nextSimulation,
                             NewSimulationRow(input_id, "pending"))
    /\ nextSimulation' = nextSimulation + 1
    /\ UNCHANGED <<potential_files, simulation_inputs,
                   nextPotentialFile, nextInput>>

\* update_simulations_by_pk(pk_columns: {id: $id}, _set: {status: $status}):
\* $status is any String, and status is the only column set.
UpdateSimulationStatus(id, status) ==
    /\ id \in DOMAIN simulations
    /\ simulations' = [simulations EXCEPT ![id].status = status]
    /\ UNCHANGED <<potential_files, simulation_inputs,
                   nextPotentialFile, nextInput, nextSimulation>>

\* delete_simulations_by_pk(id: $id): the row goes whatever its status.
DeleteSimulation(id) ==
    /\ id \in DOMAIN simulations
    /\ simulations' = Remove(simulations, id)
    /\ UNCHANGED <<potential_files, simulation_inputs,
                   nextPotentialFile, nextInput, nextSimulation>>

StoreInit ==
    /\ potential_files = <<>>
    /\ simulation_inputs = <<>>
    /\ simulations = <<>>
    /\ nextPotentialFile = 1
    /\ nextInput = 1
    /\ nextSimulation = 1


-----------------------------------------------------------------------------
(* One run request: runLAMMPSSimulation -> /api/simulate -> the backend.    *)

Null == [none |-> TRUE]

\* A script is a sequence of tokens; these are the scripts a request may carry.
Scripts ==
    { <<>>,
      <<" ">>,
      <<"run">>,
      <<"read_data">>,
      <<"#", " ", "read_data">>,
      <<"read_data", "\n", "#", " ", "read_data">> }

\* What req.body.input_content may be: a string, or not one.
StringContent(text) == [type |-> "string", text |-> text]
ContentValues ==
    {StringContent(t) : t \in Scripts}
        \cup {[type |-> "undefined", text |-> <<>>], [type |-> "number", text |-> <<>>]}

\* What potential_file_id may be: absent, the empty string, or an id.
PotentialIds == {"p1", "p2"}
PotentialIdValues == {Undefined, ""} \cup PotentialIds

Methods == {"POST", "GET"}

\* A JSON body: the fields of SimulationResponse, and FastAPI's detail.
Json(msd, ke, frames, atoms, error, tid, detail) ==
    [msd |-> msd, kinetic_energy |-> ke, frames |-> frames, atoms |-> atoms,
     error |-> error, trajectory_file_id |-> tid, detail |-> detail]
ErrorJson(error) ==
    Json(Undefined, Undefined, Undefined, Undefined, error, Undefined, Undefined)

\* JavaScript's truthiness of a string or undefined.
Truthy(s) == s \notin {Undefined, ""}
\* a || b
OrElse(a, b) == IF Truthy(a) THEN a ELSE b

\* String.prototype.includes over token sequences.
Includes(text, pat) ==
    \E i \in 1..(Len(text) - Len(pat) + 1) :
        SubSeq(text, i, i + Len(pat) - 1) = pat

\* ---- pages/api/simulate.ts

MethodAllowed(method) == method = "POST"

\* !input_content || typeof input_content !== 'string'
InputContentInvalid_TypeOnly(c) == c.type # "string"
InputContentInvalid(c) == c.type # "string" \/ c.text = <<>>

\* input_content.includes('read_data') && !input_content.includes('# read_data')
ReferencesDataFile(text) ==
    Includes(text, <<"read_data">>) /\ ~Includes(text, <<"#", " ", "read_data">>)

\* const requestBody = { input_content }; if (potential_file_id) ...
RequestBody_NoPotential(c, pf) ==
    [input_content |-> c.text, potential_file_id |-> Undefined]
RequestBody(c, pf) ==
    [input_content |-> c.text,
     potential_file_id |-> IF Truthy(pf) THEN pf ELSE Undefined]

MsgMethod == "Method not allowed"
MsgInputRequired == "Input content is required and must be a string"
MsgReadData == "Your input file references external data files with read_data command."
MsgNoBackendUrl == "Backend API URL is not configured"
MsgTimedOut == "Simulation timed out. The operation took too long to complete."
MsgReset == "Connection was reset. The backend service might be unavailable."
MsgFailed == "Failed to run LAMMPS simulation."
MsgClientFailed == "Failed to run simulation"

\* A response; code is the error.code of the network error behind it, if any.
Response(status, body) ==
    [status |-> status, body |-> body, by |-> "handler", code |-> ""]

\* The catch block's answer to a backend response with an error status.
BackendErrorBody_DetailOnly(data) == ErrorJson(data.detail)
BackendErrorBody(data) ==
    ErrorJson("Backend API error: "
                  \o OrElse(data.detail, OrElse(data.error, "Unknown error")))

\* The catch block's answer when no response came: by error.code.
NetErrorCodes == {"ECONNABORTED", "ECONNRESET", "ECONNREFUSED"}
NetErrorResponse_Ok(code) == Response(200, ErrorJson(MsgTimedOut))
NetErrorResponse_NoTimeoutCase(code) ==
    CASE code = "ECONNRESET" -> Response(503, ErrorJson(MsgReset))
      [] OTHER -> Response(500, ErrorJson(MsgFailed))
NetErrorResponse(code) ==
    CASE code = "ECONNABORTED" -> Response(504, ErrorJson(MsgTimedOut))
      [] code = "ECONNRESET" -> Response(503, ErrorJson(MsgReset))
      [] OTHER -> Response(500, ErrorJson(MsgFailed))

\* The handler up to its await: an answer at once, or the call to the backend.
HandlerReceive ==
    /\ hpc = "idle"
    /\ httpReq # Null
    /\ hres = Null
    /\ LET c == httpReq.input_content
           pf == httpReq.potential_file_id
       IN  IF ~MethodAllowed(httpReq.method)
           THEN /\ hres' = Response(405, ErrorJson(MsgMethod))
                /\ hpc' = "responded"
                /\ UNCHANGED <<backendReq, backendCalls>>
           ELSE IF InputContentInvalid(c)
           THEN /\ hres' = Response(400, ErrorJson(MsgInputRequired))
                /\ hpc' = "responded"
                /\ UNCHANGED <<backendReq, backendCalls>>
           ELSE IF ReferencesDataFile(c.text)
           THEN /\ hres' = Response(400, ErrorJson(MsgReadData))
                /\ hpc' = "responded"
                /\ UNCHANGED <<backendReq, backendCalls>>
           ELSE IF ~backendUrl
           THEN /\ hres' = Response(500, ErrorJson(MsgNoBackendUrl))
                /\ hpc' = "responded"
                /\ UNCHANGED <<backendReq, backendCalls>>
           ELSE /\ backendReq' = RequestBody(c, pf)
                /\ backendCalls' = backendCalls + 1
                /\ hpc' = "awaiting"
                /\ UNCHANGED hres
    /\ UNCHANGED <<cpc, clientResult, httpReq, backendUrl, engine, backendResp>>

\* await axios.post(...) returns or throws with the backend's response.
HandlerResume ==
    /\ hpc = "awaiting"
    /\ backendResp # Null
    /\ hres' = IF backendResp.status = 200
               THEN Response(200, backendResp.data)
               ELSE Response(backendResp.status, BackendErrorBody(backendResp.data))
    /\ hpc' = "responded"
    /\ UNCHANGED <<cpc, clientResult, httpReq, backendUrl, backendReq,
                   backendCalls, engine, backendResp>>

\* await axios.post(...) throws without a response: the 10-minute timeout
\* (ECONNABORTED), a reset connection, or another network error.
HandlerNetError_Retry(code) ==
    /\ hpc = "awaiting"
    /\ backendCalls' = backendCalls + 1
    /\ UNCHANGED <<cpc, clientResult, httpReq, hpc, hres, backendUrl,
                   backendReq, engine, backendResp>>
HandlerNetError(code) ==
    /\ hpc = "awaiting"
    /\ hres' = [NetErrorResponse(code) EXCEPT !.code = code]
    /\ hpc' = "responded"
    /\ UNCHANGED <<cpc, clientResult, httpReq, backendUrl, backendReq,
                   backendCalls, engine, backendResp>>


\* ---- the backend behind <backend>/run-lammps/, as the handler sees it: it
\* runs the simulation and answers with the results, or with an error status.

SuccessData == Json("msd", "kinetic_energy", "frames", "atoms", Undefined,
                    "trajectory_file_id", Undefined)
FailureData == Json(Undefined, Undefined, Undefined, Undefined,
                    "LAMMPS run failed", Undefined, Undefined)
\* An error response's body: FastAPI's {detail}, an {error}, or neither.
ErrorDatas ==
    { Json(Undefined, Undefined, Undefined, Undefined, e, Undefined, d) :
          e \in {Undefined, "engine error"}, d \in {Undefined, "", "detail"} }
BackendErrorStatuses == {400, 500}

\* The backend refuses the request before any run (a pre-execution error).
BackendRefuse(status, data) ==
    /\ backendReq # Null
    /\ engine = "none"
    /\ backendResp = Null
    /\ backendResp' = [status |-> status, data |-> data]
    /\ UNCHANGED <<cpc, clientResult, httpReq, hpc, hres, backendUrl,
                   backendReq, backendCalls, engine>>

\* The backend starts the engine on the posted script.
BackendStartEngine ==
    /\ backendReq # Null
    /\ engine = "none"
    /\ backendResp = Null
    /\ engine' = "running"
    /\ UNCHANGED <<cpc, clientResult, httpReq, hpc, hres, backendUrl,
                   backendReq, backendCalls, backendResp>>

\* The run ends and the backend answers: the results, or an error.
EngineExit(resp) ==
    /\ engine = "running"
    /\ engine' = "finished"
    /\ backendResp' = resp
    /\ UNCHANGED <<cpc, clientResult, httpReq, hpc, hres, backendUrl,
                   backendReq, backendCalls>>

EngineOutcomes ==
    {[status |-> 200, data |-> SuccessData], [status |-> 200, data |-> FailureData]}
        \cup {[status |-> st, data |-> d] : st \in BackendErrorStatuses, d \in ErrorDatas}

\* ---- services/api.ts: runLAMMPSSimulation

ClientRun(text, pf) ==
    /\ cpc = "idle"
    /\ httpReq = Null
    /\ cpc' = "waiting"
    /\ httpReq' = [method |-> "POST", input_content |-> StringContent(text),
                   potential_file_id |-> pf]
    /\ UNCHANGED <<clientResult, hpc, hres, backendUrl, backendReq,
                   backendCalls, engine, backendResp>>

\* A request to /api/simulate from any other HTTP client.
DirectRequest(method, c, pf) ==
    /\ cpc = "idle"
    /\ httpReq = Null
    /\ httpReq' = [method |-> method, input_content |-> c, potential_file_id |-> pf]
    /\ UNCHANGED <<cpc, clientResult, hpc, hres, backendUrl, backendReq,
                   backendCalls, engine, backendResp>>

\* The request is answered before it reaches the handler (the framework's own
\* 413 for a body over its size limit): a body without an error field.
FrameworkReject ==
    /\ httpReq # Null
    /\ hpc = "idle"
    /\ hres = Null
    /\ hres' = [status |-> 413, body |-> ErrorJson(Undefined), by |-> "framework",
                code |-> ""]
    /\ hpc' = "responded"
    /\ UNCHANGED <<cpc, clientResult, httpReq, backendUrl, backendReq,
                   backendCalls, engine, backendResp>>

\* What runLAMMPSSimulation resolves to, given the response.
ClientResultOf_NoFallback(r) ==
    IF r.status = 200 THEN r.body ELSE ErrorJson(r.body.error)
ClientResultOf(r) ==
    IF r.status = 200
    THEN r.body
    ELSE ErrorJson(OrElse(r.body.error, MsgClientFailed))

ClientReceive ==
    /\ cpc = "waiting"
    /\ hres # Null
    /\ clientResult' = ClientResultOf(hres)
    /\ cpc' = "done"
    /\ UNCHANGED <<httpReq, hpc, hres, backendUrl, backendReq, backendCalls,
                   engine, backendResp>>

\* api.post throws without a response (no connection to the Next.js server).
ClientNetError ==
    /\ cpc = "waiting"
    /\ hres = Null
    /\ clientResult' = ErrorJson(MsgClientFailed)
    /\ cpc' = "done"
    /\ UNCHANGED <<httpReq, hpc, hres, backendUrl, backendReq, backendCalls,
                   engine, backendResp>>

\* The request is over; the next one starts from scratch.
RunReset ==
    /\ \/ cpc = "done"
       \/ cpc = "idle" /\ hpc = "responded"
    /\ cpc' = "idle"
    /\ clientResult' = Null
    /\ httpReq' = Null
    /\ hpc' = "idle"
    /\ hres' = Null
    /\ backendReq' = Null
    /\ backendCalls' = 0
    /\ engine' = "none"
    /\ backendResp' = Null
    /\ UNCHANGED backendUrl

RunInit ==
    /\ cpc = "idle"
    /\ clientResult = Null
    /\ httpReq = Null
    /\ hpc = "idle"
    /\ hres = Null
    /\ backendUrl \in BOOLEAN
    /\ backendReq = Null
    /\ backendCalls = 0
    /\ engine = "none"
    /\ backendResp = Null

-----------------------------------------------------------------------------
(* The backend's job pipeline: gateway, resolver, runner, cancellation and  *)
(* retention, as the specification words them.                              *)

NoPotential == "<none>"

\* No cleanup call, and what every step other than a cleanup leaves behind.
NoCleanup == [ids |-> {}, count |-> 0, repeat |-> FALSE]
NotCleanup == lastOp' = "other" /\ lastCleanup' = NoCleanup
PipelinePotentialIds == {"p1"}

\* What ends a run that was not cancelled.
EngineResults == {"ok", "EngineError", "TimeoutError"}

NewJob(pf) ==
    [status |-> "pending", potential_file_id |-> pf, resolved |-> FALSE,
     series |-> FALSE, error |-> ""]

\* Potential-file collaborator: a stored file becomes resolvable.
UploadPotential(p) ==
    /\ p \notin potentialStore
    /\ potentialStore' = potentialStore \cup {p}
    /\ NotCleanup
    /\ UNCHANGED <<jobs, nextJob, procs, spawned, artifacts, aged,
                   cancelRequested>>

\* Gateway: an empty script is a ValidationError and creates nothing; any
\* other creates a job, pending.
SubmitJob(text, pf) ==
    /\ text # <<>>
    /\ nextJob <= MaxJobs
    /\ jobs' = Extend(jobs, nextJob, NewJob(pf))
    /\ nextJob' = nextJob + 1
    /\ NotCleanup
    /\ UNCHANGED <<procs, spawned, artifacts, potentialStore, aged,
                   cancelRequested>>

Resolves(pf) == pf = NoPotential \/ pf \in potentialStore

\* Resolver: materialise the potential file, or fail with ResolutionError.
ResolvePotential(j) ==
    /\ j \in DOMAIN jobs
    /\ jobs[j].status = "pending"
    /\ ~jobs[j].resolved
    /\ j \notin cancelRequested
    /\ jobs' = IF Resolves(jobs[j].potential_file_id)
               THEN [jobs EXCEPT ![j].resolved = TRUE]
               ELSE [jobs EXCEPT ![j].status = "failed",
                                 ![j].error = "ResolutionError"]
    /\ NotCleanup
    /\ UNCHANGED <<nextJob, procs, spawned, artifacts, potentialStore, aged,
                   cancelRequested>>

\* Runner: the engine is spawned for a staged job whose potential resolved.
CanSpawn_Unresolved(j) == jobs[j].status = "pending"
CanSpawn(j) == jobs[j].status = "pending" /\ jobs[j].resolved

SpawnEngine(j) ==
    /\ j \in DOMAIN jobs
    /\ CanSpawn(j)
    /\ j \notin cancelRequested
    /\ jobs' = [jobs EXCEPT ![j].status = "running"]
    /\ procs' = procs \cup {j}
    /\ spawned' = spawned \cup {j}
    /\ NotCleanup
    /\ UNCHANGED <<nextJob, artifacts, potentialStore, aged, cancelRequested>>

\* Runner: the subprocess exits, or the timeout fires and it is killed.
EngineDone(j, result) ==
    /\ j \in procs
    /\ j \notin cancelRequested
    /\ procs' = procs \ {j}
    /\ IF result = "ok"
       THEN /\ jobs' = [jobs EXCEPT ![j].status = "completed", ![j].series = TRUE]
            /\ artifacts' = artifacts \cup {j}
       ELSE /\ jobs' = [jobs EXCEPT ![j].status = "failed", ![j].error = result]
            /\ UNCHANGED artifacts
    /\ NotCleanup
    /\ UNCHANGED <<nextJob, spawned, potentialStore, aged, cancelRequested>>

\* Cancellation is asked for a job that is not over.
CancelJob(j) ==
    /\ j \in DOMAIN jobs
    /\ jobs[j].status \in {"pending", "running"}
    /\ j \notin cancelRequested
    /\ cancelRequested' = cancelRequested \cup {j}
    /\ NotCleanup
    /\ UNCHANGED <<jobs, nextJob, procs, spawned, artifacts, potentialStore,
                   aged>>

\* Cancellation takes effect: the subprocess is terminated and the job failed.
Cancelled_KillOnly(job) == job
Cancelled(job) == [job EXCEPT !.status = "failed", !.error = "cancelled"]

CancelEffect(j) ==
    /\ j \in cancelRequested
    /\ j \in DOMAIN jobs
    /\ jobs[j].status \in {"pending", "running"}
    /\ procs' = procs \ {j}
    /\ jobs' = [jobs EXCEPT ![j] = Cancelled(jobs[j])]
    /\ NotCleanup
    /\ UNCHANGED <<nextJob, spawned, artifacts, potentialStore, aged,
                   cancelRequested>>

\* Time passes: the oldest job not yet past the retention threshold passes
\* it (jobs are created in the order of their ids).
AgeJob(j) ==
    /\ j \in DOMAIN jobs
    /\ j \notin aged
    /\ \A k \in DOMAIN jobs : k < j => k \in aged
    /\ aged' = aged \cup {j}
    /\ NotCleanup
    /\ UNCHANGED <<jobs, nextJob, procs, spawned, artifacts, potentialStore,
                   cancelRequested>>

\* Retention: the jobs a cleanup call removes are those past the threshold or
\* named by id, and over.
CleanupTargets(ids) ==
    {j \in DOMAIN jobs : (j \in ids \/ j \in aged)
                            /\ jobs[j].status \in TerminalStatuses}

\* The count a cleanup call returns: the artifacts it removed.
CleanupCount_Requested(ids, gone) == Cardinality(ids)
CleanupCount(ids, gone) == Cardinality(gone \cap artifacts)

Cleanup(ids) ==
    LET gone == CleanupTargets(ids)
        count == CleanupCount(ids, gone)
    IN  /\ jobs' = [j \in DOMAIN jobs \ gone |-> jobs[j]]
        /\ artifacts' = artifacts \ gone
        /\ aged' = aged \ gone
        /\ cancelRequested' = cancelRequested \ gone
        /\ spawned' = spawned \ gone
        /\ lastCleanup' = [ids |-> ids, count |-> count,
                           repeat |-> lastOp = "cleanup" /\ lastCleanup.ids = ids
                                          /\ lastCleanup.count > 0]
        /\ lastOp' = "cleanup"
        /\ UNCHANGED <<nextJob, procs, potentialStore>>

PipelineInit ==
    /\ jobs = <<>>
    /\ nextJob = 1
    /\ procs = {}
    /\ spawned = {}
    /\ artifacts = {}
    /\ potentialStore = {}
    /\ aged = {}
    /\ cancelRequested = {}
    /\ lastOp = "none"
    /\ lastCleanup = NoCleanup

-----------------------------------------------------------------------------
(* The other API routes: upload-potential, trajectory/[id], chat, generate. *)

Routes == {"upload-potential", "trajectory", "chat", "generate"}

\* The one method each handler lets through.
RouteMethod_Post(route) == "POST"
RouteMethod(route) == IF route = "trajectory" THEN "GET" ELSE "POST"

\* The value a handler validates: req.query.id, files.file, body.message,
\* body.prompt. A file field is absent, one file, or an array of files.
ArgValues ==
    {[type |-> "undefined", text |-> ""], [type |-> "string", text |-> ""],
     [type |-> "string", text |-> "x"], [type |-> "array", text |-> "x"]}

\* Each handler's own validation of that value.
ArgInvalid(route, arg) ==
    CASE route = "chat" -> arg.type = "undefined" \/ arg.text = ""
      [] route = "upload-potential" -> arg.type \in {"undefined", "array"}
      [] OTHER -> arg.type # "string" \/ arg.text = ""

MsgArgInvalid(route) ==
    CASE route = "trajectory" -> "Trajectory ID is required"
      [] route = "upload-potential" -> "No file uploaded or multiple files detected"
      [] route = "chat" -> "Message is required"
      [] OTHER -> "Prompt is required and must be a string"

MsgNoEnv(route) ==
    IF route = "generate" THEN "OpenAI API key is not configured"
    ELSE MsgNoBackendUrl

\* The answer of the last return of each catch block.
MsgRouteFailed(route) ==
    CASE route = "trajectory" -> "Failed to fetch trajectory file. Please try again later."
      [] route = "upload-potential" -> "Failed to upload potential file. Please try again."
      [] route = "chat" -> "Failed to chat with assistant"
      [] OTHER -> "Failed to generate LAMMPS input"

JsonError(status, error) == [status |-> status, kind |-> "json", error |-> error]
RouteSuccess(route) ==
    [status |-> 200, kind |-> IF route = "trajectory" THEN "text" ELSE "json",
     error |-> Undefined]

\* An upstream answer's data: a parsed JSON object, or (responseType 'text')
\* a string, whose .detail and .error are undefined.
UpDatas ==
    {[type |-> "json", detail |-> d, error |-> e, wellFormed |-> w] :
         d \in {Undefined, "detail"}, e \in {Undefined, "error"}, w \in BOOLEAN}
UpText == [type |-> "text", detail |-> "detail", error |-> Undefined, wellFormed |-> TRUE]
Field(data, f) == IF data.type = "text" THEN Undefined ELSE data[f]
UpStatuses == {200, 404, 500}
MsgAxios == "Request failed with status code"
MsgNetwork == "Network Error"

\* The catch block's answer to an upstream response with an error status.
UpstreamErrorResponse_Generic(route, up) == JsonError(500, MsgRouteFailed(route))
UpstreamErrorResponse(route, up) ==
    CASE route = "chat" ->
             JsonError(up.status, OrElse(Field(up.data, "detail"), MsgAxios))
      [] route = "generate" ->
             JsonError(up.status,
                       "OpenAI API error: "
                           \o OrElse(Field(up.data, "error"), "Unknown error"))
      [] OTHER ->
             JsonError(up.status,
                       "Backend API error: "
                           \o OrElse(Field(up.data, "detail"),
                                     OrElse(Field(up.data, "error"), "Unknown error")))

\* The catch block's answer when no response came.
RouteNetErrorResponse(route) ==
    IF route = "chat" THEN JsonError(500, MsgNetwork)
    ELSE JsonError(500, MsgRouteFailed(route))

RouteRequest(route, method, arg) ==
    /\ rReq = Null
    /\ rReq' = [route |-> route, method |-> method, arg |-> arg]
    /\ UNCHANGED <<rpc, rres, rTrace, rEnv, rUp>>

\* The handler up to its first await.
RouteReceive ==
    /\ rReq # Null
    /\ rpc = "idle"
    /\ LET route == rReq.route
           upload == route = "upload-potential"
       IN  IF rReq.method # RouteMethod(route)
           THEN /\ rres' = JsonError(405, MsgMethod)
                /\ rpc' = "responded"
                /\ UNCHANGED rTrace
           ELSE IF ~upload /\ ArgInvalid(route, rReq.arg)
           THEN /\ rres' = JsonError(400, MsgArgInvalid(route))
                /\ rpc' = "responded"
                /\ rTrace' = rTrace \cup {"validate"}
           ELSE IF ~rEnv
           THEN /\ rres' = JsonError(500, MsgNoEnv(route))
                /\ rpc' = "responded"
                /\ rTrace' = rTrace \cup (IF upload THEN {"env"} ELSE {"validate", "env"})
           ELSE IF upload
           THEN /\ rpc' = "parsing"
                /\ rTrace' = rTrace \cup {"env", "parse"}
                /\ UNCHANGED rres
           ELSE /\ rpc' = "awaiting"
                /\ rTrace' = rTrace \cup {"validate", "env", "call"}
                /\ UNCHANGED rres
    /\ UNCHANGED <<rReq, rEnv, rUp>>

\* upload-potential: form.parse calls back, with an error or with the files.
UploadParsed(ok) ==
    /\ rpc = "parsing"
    /\ IF ~ok
       THEN /\ rres' = JsonError(500, MsgRouteFailed(rReq.route))
            /\ rpc' = "responded"
            /\ UNCHANGED rTrace
       ELSE IF ArgInvalid(rReq.route, rReq.arg)
       THEN /\ rres' = JsonError(400, MsgArgInvalid(rReq.route))
            /\ rpc' = "responded"
            /\ rTrace' = rTrace \cup {"validate"}
       ELSE /\ rpc' = "awaiting"
            /\ rTrace' = rTrace \cup {"validate", "call"}
            /\ UNCHANGED rres
    /\ UNCHANGED <<rReq, rEnv, rUp>>

\* The response of the upstream (the backend, or the OpenAI API) arrives.
UpstreamAnswer(status, data) ==
    /\ rpc = "awaiting"
    /\ rUp = Null
    /\ rReq.route = "trajectory" <=> data.type = "text"
    /\ rUp' = [status |-> status, data |-> data]
    /\ UNCHANGED <<rReq, rpc, rres, rTrace, rEnv>>

\* The awaited call returns, or throws with the upstream's response.
RouteResume ==
    /\ rpc = "awaiting"
    /\ rUp # Null
    /\ rres' = IF rUp.status # 200
               THEN UpstreamErrorResponse(rReq.route, rUp)
               ELSE IF rReq.route = "generate" /\ ~rUp.data.wellFormed
               THEN JsonError(500, MsgRouteFailed(rReq.route))
               ELSE RouteSuccess(rReq.route)
    /\ rpc' = "responded"
    /\ UNCHANGED <<rReq, rTrace, rEnv, rUp>>

\* The awaited call throws without a response.
RouteNetError ==
    /\ rpc = "awaiting"
    /\ rUp = Null
    /\ rres' = RouteNetErrorResponse(rReq.route)
    /\ rpc' = "responded"
    /\ UNCHANGED <<rReq, rTrace, rEnv, rUp>>

\* The request is over; the next one starts from scratch.
RouteReset ==
    /\ rpc = "responded"
    /\ rReq' = Null
    /\ rpc' = "idle"
    /\ rres' = Null
    /\ rTrace' = {}
    /\ rUp' = Null
    /\ UNCHANGED rEnv

\* The server is restarted with the routes' environment variable set or unset.
Redeploy ==
    /\ rReq = Null
    /\ rpc = "idle"
    /\ rEnv' = ~rEnv
    /\ UNCHANGED <<rReq, rpc, rres, rTrace, rUp>>

RoutesInit ==
    /\ rReq = Null
    /\ rpc = "idle"
    /\ rres = Null
    /\ rTrace = {}
    /\ rEnv = TRUE
    /\ rUp = Null

-----------------------------------------------------------------------------
(* The observable calculator (backend, from the specification) and the     *)
(* results view's time axis (ResultsVisualizer.tsx).                        *)

\* A frame is a sequence of atom records [id, pos, vel] in dump order. In the
\* trajectories drawn here the atom with the highest id moves along x and the
\* others rest at the origin.
Origin == <<0, 0, 0>>
Positions == {<<0, 0, 0>>, <<1, 0, 0>>, <<2, 0, 0>>}
Velocities == {<<0, 0, 0>>, <<1, 0, 0>>}
Mass == 1

AtomRecord(id, m, pos, vel) ==
    IF id = m THEN [id |-> id, pos |-> pos, vel |-> vel]
    ELSE [id |-> id, pos |-> Origin, vel |-> Origin]

\* The records of m atoms in ascending or in descending order of id.
Frame(m, ascending, pos, vel) ==
    [k \in 1..m |-> AtomRecord(IF ascending THEN k ELSE m + 1 - k, m, pos, vel)]

Norm2(v) == v[1] * v[1] + v[2] * v[2] + v[3] * v[3]
Diff(a, b) == <<a[1] - b[1], a[2] - b[2], a[3] - b[3]>>

RECURSIVE SumOver(_, _, _, _)
\* The sum of F(t, k, id) over the atom ids.
SumOver(F(_, _, _), t, k, ids) ==
    IF ids = {} THEN 0
    ELSE LET id == CHOOSE x \in ids : TRUE
         IN  F(t, k, id) + SumOver(F, t, k, ids \ {id})

AtomIds(t) == {t[1][i].id : i \in 1..Len(t[1])}

\* The record of atom id in frame k: atoms are indexed by id, not by file order.
AtomOf(t, k, id) == t[k][CHOOSE i \in 1..Len(t[k]) : t[k][i].id = id]

Displacement2(t, k, id) == Norm2(Diff(AtomOf(t, k, id).pos, AtomOf(t, 1, id).pos))
TwiceKinetic(t, k, id) == Mass * Norm2(AtomOf(t, k, id).vel)

\* A series entry is a fraction <<numerator, denominator>>.
\* MSD of frame k: the mean over atoms of the squared displacement from frame 0.
MsdEntry_Total(t, k) == <<SumOver(Displacement2, t, k, AtomIds(t)), 1>>
MsdEntry(t, k) == <<SumOver(Displacement2, t, k, AtomIds(t)), Cardinality(AtomIds(t))>>
\* Kinetic energy of frame k: the sum over atoms of m v^2 / 2.
KineticEntry(t, k) == <<SumOver(TwiceKinetic, t, k, AtomIds(t)), 2>>

KineticSeries_FromSecond(t) == [k \in 1..(Len(t) - 1) |-> KineticEntry(t, k + 1)]
KineticSeries(t) == [k \in 1..Len(t) |-> KineticEntry(t, k)]
MsdSeries(t) == [k \in 1..Len(t) |-> MsdEntry(t, k)]

Calculator(t) ==
    [msd |-> MsdSeries(t), kinetic_energy |-> KineticSeries(t),
     frames |-> Len(t), atoms |-> Cardinality(AtomIds(t))]

\* const timeSteps = results.msd ? Array.from({length: results.msd.length}, (_, i) => i) : []
TimeSteps(results) ==
    IF "msd" \in DOMAIN results
    THEN [i \in 1..Len(results.msd) |-> i - 1]
    ELSE <<>>

\* The parser yields the next frame of a trajectory of m atoms.
ParseFrame(m, ascending, pos, vel) ==
    /\ Len(traj) < MaxFrames
    /\ traj # <<>> => m = Len(traj[1])
    /\ traj' = Append(traj, Frame(m, ascending, pos, vel))
    /\ calcOut' = Null

\* The calculator derives the observables of the parsed trajectory.
Calculate ==
    /\ traj # <<>>
    /\ calcOut = Null
    /\ calcOut' = Calculator(traj)
    /\ UNCHANGED traj

\* The next job's trajectory starts empty.
CalcReset ==
    /\ traj # <<>>
    /\ traj' = <<>>
    /\ calcOut' = Null

CalcInit ==
    /\ traj = <<>>
    /\ calcOut = Null

-----------------------------------------------------------------------------
(* The wizard page: Home (pages/index.tsx) with the components it mounts,  *)
(* PotentialFileSelector on step 1, InputForm on step 2, InputEditor on    *)
(* step 3, and the chat assistant.  A component's state lives only while   *)
(* the component is mounted; a request outlives the component that sent it.*)

MaxInFlight == 2
MaxUploads == 1

\* potentialFileId = null
NoFile == "<null>"
\* resultsOf while there are no results
NoScript == "<none>"
FileIds == {"f1", "f2"}

\* Scripts as the wizard sees them: empty, blank, or with text.
WizardTexts == {"", " ", "in.a", "in.b"}
\* String.prototype.trim
Trim(s) == IF s = " " THEN "" ELSE s
\* What /api/generate returns as input_content, and what the chat extracts.
GeneratedTexts == {"", "in.a", "in.b"}
ChatTexts == {"in.a", "in.b"}

\* What runLAMMPSSimulation resolves to: the response's data, or {error}.
RunOutcomes ==
    {SuccessData, FailureData, ErrorJson(MsgClientFailed)}

RunButtons == {"home", "editor"}
NextButtons == {"home", "selector"}

\* The request handleRunSimulation sends: potentialFileId || undefined.
RunRequest(content, fileId) ==
    [input_content |-> content,
     potential_file_id |-> IF fileId \in {NoFile, ""} THEN Undefined ELSE fileId]

\* seq without its i-th element.
RemoveAt(seq, i) == SubSeq(seq, 1, i - 1) \o SubSeq(seq, i + 1, Len(seq))

\* InputEditor is mounted on step 3 only.  Mounting starts it outside editing
\* mode with the buffer set to the script; while mounted, its effect copies a
\* changed script into the buffer.
EditorFollows(step, content) ==
    /\ isEditing' = (currentStep = 3 /\ step = 3 /\ isEditing)
    /\ editableContent' =
           IF currentStep = 3 /\ step = 3 /\ content = inputContent
           THEN editableContent
           ELSE content

\* PotentialFileSelector is mounted on step 1 only, and starts with no file
\* and the checkbox clear; while it is not mounted these variables hold what
\* it shows when step 1 is next opened.
SelectorFollows(step) ==
    IF currentStep = 1 /\ step = 1
    THEN UNCHANGED <<uploadedFile, usePotentialFile>>
    ELSE uploadedFile' = NoFile /\ usePotentialFile' = FALSE

\* Home moves to a step; nothing else of Home changes.
GoTo(step, op) ==
    /\ currentStep' = step
    /\ EditorFollows(step, inputContent)
    /\ SelectorFollows(step)
    /\ wizardOp' = op
    /\ UNCHANGED <<inputContent, simulationResults, resultsOf, isLoading,
                   showChat, potentialFileId, runsInFlight, generating, uploads>>

\* ---- Home: navigation

\* Step indicators that move to any step.
StepIndicatorEnabled_Always(step) == step \in 1..4

\* The step indicators' onClick conditions.
StepIndicatorEnabled(step) ==
    CASE step = 1 -> TRUE
      [] step = 2 -> potentialFileId # NoFile
      [] step = 3 -> inputContent # ""
      [] step = 4 -> simulationResults # Null

ClickStep(step) ==
    /\ StepIndicatorEnabled(step)
    /\ GoTo(step, "indicator")

\* The forward buttons of steps 1 and 2.
ClickNext(button) ==
    /\ \/ currentStep = 1 /\ button = "selector"
       \/ currentStep = 1 /\ button = "home" /\ potentialFileId # NoFile
       \/ currentStep = 2 /\ button = "home" /\ inputContent # ""
    /\ GoTo(currentStep + 1, "next")

\* The back buttons of steps 2, 3 and 4; step 4 renders only with results.
goToPreviousStep ==
    /\ currentStep \in {2, 3} \/ (currentStep = 4 /\ simulationResults # Null)
    /\ GoTo(currentStep - 1, "previous")

\* Step 4's "new simulation" button.
ClickNewSimulation ==
    /\ currentStep = 4
    /\ simulationResults # Null
    /\ GoTo(1, "new")

toggleChat ==
    /\ showChat' = ~showChat
    /\ wizardOp' = "chat"
    /\ UNCHANGED <<inputContent, simulationResults, resultsOf, isLoading,
                   currentStep, potentialFileId, uploadedFile, usePotentialFile,
                   isEditing, editableContent, runsInFlight, generating, uploads>>

\* ---- Home: a script arrives from generation or from the chat

handleInputGenerated(content) ==
    /\ inputContent' = content
    /\ simulationResults' = Null
    /\ resultsOf' = NoScript
    /\ currentStep' = 3
    /\ EditorFollows(3, content)
    /\ SelectorFollows(3)

\* ChatAssistant: "use this code" on a message that holds a script.
handleUseInput(content) ==
    /\ showChat
    /\ handleInputGenerated(content)
    /\ wizardOp' = "chatInput"
    /\ UNCHANGED <<isLoading, showChat, potentialFileId, runsInFlight,
                   generating, uploads>>

\* ---- InputForm: generation

handleSubmit ==
    /\ currentStep = 2
    /\ ~isLoading
    /\ isLoading' = TRUE
    /\ generating' = TRUE
    /\ wizardOp' = "generate"
    /\ UNCHANGED <<inputContent, simulationResults, resultsOf, showChat,
                   currentStep, potentialFileId, uploadedFile, usePotentialFile,
                   isEditing, editableContent, runsInFlight, uploads>>

GenerateDone(content) ==
    /\ generating
    /\ handleInputGenerated(content)
    /\ isLoading' = FALSE
    /\ generating' = FALSE
    /\ wizardOp' = "generated"
    /\ UNCHANGED <<showChat, potentialFileId, runsInFlight, uploads>>

GenerateFail ==
    /\ generating
    /\ isLoading' = FALSE
    /\ generating' = FALSE
    /\ wizardOp' = "generateFailed"
    /\ UNCHANGED <<inputContent, simulationResults, resultsOf, showChat,
                   currentStep, potentialFileId, uploadedFile, usePotentialFile,
                   isEditing, editableContent, runsInFlight, uploads>>

\* ---- PotentialFileSelector and FileDropzone

handlePotentialFileSelected(fileId) ==
    /\ potentialFileId' = fileId
    /\ currentStep' = IF fileId # NoFile THEN 2 ELSE currentStep
    /\ EditorFollows(IF fileId # NoFile THEN 2 ELSE currentStep, inputContent)

\* FileDropzone.uploadFile; the dropzone shows while no file is uploaded.
StartUpload ==
    /\ currentStep = 1
    /\ uploadedFile = NoFile
    /\ uploads < MaxUploads
    /\ uploads' = uploads + 1
    /\ wizardOp' = "upload"
    /\ UNCHANGED <<inputContent, simulationResults, resultsOf, isLoading,
                   showChat, currentStep, potentialFileId, uploadedFile,
                   usePotentialFile, isEditing, editableContent, runsInFlight,
                   generating>>

\* The upload succeeded: handleFileUploaded sets the selector's file and
\* checkbox and calls Home, whose move to step 2 unmounts the selector.
handleFileUploaded(fileId) ==
    /\ uploads > 0
    /\ uploads' = uploads - 1
    /\ handlePotentialFileSelected(fileId)
    /\ uploadedFile' = NoFile
    /\ usePotentialFile' = FALSE
    /\ wizardOp' = "uploaded"
    /\ UNCHANGED <<inputContent, simulationResults, resultsOf, isLoading,
                   showChat, runsInFlight, generating>>

UploadFail ==
    /\ uploads > 0
    /\ uploads' = uploads - 1
    /\ wizardOp' = "uploadFailed"
    /\ UNCHANGED <<inputContent, simulationResults, resultsOf, isLoading,
                   showChat, currentStep, potentialFileId, uploadedFile,
                   usePotentialFile, isEditing, editableContent, runsInFlight,
                   generating>>

\* The checkbox and the remove button are rendered while the selector shows
\* an uploaded file.  handleFileUploaded's own call of Home unmounts the
\* selector, so no state of the wizard renders them and NextWizard has no
\* step for them.
handleToggleChange(checked) ==
    /\ currentStep = 1
    /\ uploadedFile # NoFile
    /\ usePotentialFile' = checked
    /\ handlePotentialFileSelected(IF checked THEN uploadedFile ELSE NoFile)
    /\ uploadedFile' = IF checked THEN NoFile ELSE uploadedFile
    /\ wizardOp' = "toggle"
    /\ UNCHANGED <<inputContent, simulationResults, resultsOf, isLoading,
                   showChat, runsInFlight, generating, uploads>>

\* The remove button, rendered while the selector shows an uploaded file.
RemoveFile ==
    /\ currentStep = 1
    /\ uploadedFile # NoFile
    /\ uploadedFile' = NoFile
    /\ usePotentialFile' = FALSE
    /\ handlePotentialFileSelected(NoFile)
    /\ wizardOp' = "remove"
    /\ UNCHANGED <<inputContent, simulationResults, resultsOf, isLoading,
                   showChat, runsInFlight, generating, uploads>>

\* ---- InputEditor

StartEdit ==
    /\ currentStep = 3
    /\ ~isEditing
    /\ ~isLoading
    /\ isEditing' = TRUE
    /\ wizardOp' = "edit"
    /\ UNCHANGED <<inputContent, simulationResults, resultsOf, isLoading,
                   showChat, currentStep, potentialFileId, uploadedFile,
                   usePotentialFile, editableContent, runsInFlight, generating,
                   uploads>>

\* The textarea's onChange.
TypeText(text) ==
    /\ currentStep = 3
    /\ isEditing
    /\ ~isLoading
    /\ editableContent' = text
    /\ wizardOp' = "type"
    /\ UNCHANGED <<inputContent, simulationResults, resultsOf, isLoading,
                   showChat, currentStep, potentialFileId, uploadedFile,
                   usePotentialFile, isEditing, runsInFlight, generating,
                   uploads>>

\* Home's handleInputChange sets the script and nothing else.
handleSaveEdit ==
    /\ currentStep = 3
    /\ isEditing
    /\ inputContent' = editableContent
    /\ isEditing' = FALSE
    /\ wizardOp' = "save"
    /\ UNCHANGED <<simulationResults, resultsOf, isLoading, showChat,
                   currentStep, potentialFileId, uploadedFile, usePotentialFile,
                   editableContent, runsInFlight, generating, uploads>>

\* A cancel that leaves editing mode and keeps the typed text in the buffer.
handleCancelEdit_KeepBuffer ==
    /\ currentStep = 3
    /\ isEditing
    /\ isEditing' = FALSE
    /\ wizardOp' = "cancel"
    /\ UNCHANGED <<inputContent, simulationResults, resultsOf, isLoading,
                   showChat, currentStep, potentialFileId, uploadedFile,
                   usePotentialFile, editableContent, runsInFlight, generating,
                   uploads>>

handleCancelEdit ==
    /\ currentStep = 3
    /\ isEditing
    /\ editableContent' = inputContent
    /\ isEditing' = FALSE
    /\ wizardOp' = "cancel"
    /\ UNCHANGED <<inputContent, simulationResults, resultsOf, isLoading,
                   showChat, currentStep, potentialFileId, uploadedFile,
                   usePotentialFile, runsInFlight, generating, uploads>>

\* ---- Home: run

\* Only the editor's run button is disabled while loading.
RunEnabled_HomeUnguarded(button) ==
    button = "editor" => (~isLoading /\ Trim(inputContent) # "")

\* The two run buttons of step 3 and their disabled conditions.
RunEnabled(button) ==
    IF button = "editor"
    THEN ~isLoading /\ Trim(inputContent) # ""
    ELSE ~isLoading

\* handleRunSimulation up to its await.
handleRunSimulation(button) ==
    /\ currentStep = 3
    /\ RunEnabled(button)
    /\ Len(runsInFlight) < MaxInFlight
    /\ isLoading' = TRUE
    /\ runsInFlight' = Append(runsInFlight, RunRequest(inputContent, potentialFileId))
    /\ wizardOp' = "run"
    /\ UNCHANGED <<inputContent, simulationResults, resultsOf, showChat,
                   currentStep, potentialFileId, uploadedFile, usePotentialFile,
                   isEditing, editableContent, generating, uploads>>

\* handleRunSimulation without its finally block, leaving after a failure.
RunResolve_NoFinally(i, outcome) ==
    /\ i \in DOMAIN runsInFlight
    /\ runsInFlight' = RemoveAt(runsInFlight, i)
    /\ simulationResults' = outcome
    /\ resultsOf' = runsInFlight[i].input_content
    /\ currentStep' = 4
    /\ isLoading' = (outcome.error # Undefined)
    /\ EditorFollows(4, inputContent)
    /\ SelectorFollows(4)
    /\ wizardOp' = "resolved"
    /\ UNCHANGED <<inputContent, showChat, potentialFileId, generating, uploads>>

\* runLAMMPSSimulation resolves, and handleRunSimulation runs to its end.
RunResolve(i, outcome) ==
    /\ i \in DOMAIN runsInFlight
    /\ runsInFlight' = RemoveAt(runsInFlight, i)
    /\ simulationResults' = outcome
    /\ resultsOf' = runsInFlight[i].input_content
    /\ currentStep' = 4
    /\ isLoading' = FALSE
    /\ EditorFollows(4, inputContent)
    /\ SelectorFollows(4)
    /\ wizardOp' = "resolved"
    /\ UNCHANGED <<inputContent, showChat, potentialFileId, generating, uploads>>

WizardInit ==
    /\ inputContent = ""
    /\ simulationResults = Null
    /\ isLoading = FALSE
    /\ showChat = FALSE
    /\ currentStep = 1
    /\ potentialFileId = NoFile
    /\ uploadedFile = NoFile
    /\ usePotentialFile = FALSE
    /\ isEditing = FALSE
    /\ editableContent = ""
    /\ runsInFlight = <<>>
    /\ generating = FALSE
    /\ uploads = 0
    /\ resultsOf = NoScript
    /\ wizardOp = "load"

-----------------------------------------------------------------------------
(* The simulation detail page (pages/simulations/[id].tsx) and the results *)
(* view it mounts.  The page renders the row GET_SIMULATION returned; the  *)
(* table puts no constraint between status and the result columns, so the  *)
(* row is any row the table can hold.                                      *)

\* A JSONB column as Hasura hands it over: null, a JSON string holding the
\* text of a series, or a JSON array.
JsonbNull == [json |-> "null", series |-> <<>>]
JsonbValues ==
    {JsonbNull,
     [json |-> "string", series |-> <<0, 1>>],
     [json |-> "array", series |-> <<0, 1>>]}

\* JSON.parse(v) of a string holding a series' text is the series; an array
\* is first turned into the string "0,1", which is not JSON, and parse throws.
JsonParseThrows(v) == v.json = "array"
JsonParse(v) == v.series

\* An INTEGER column: NULL or a count.
NoCount == -1
CountValues == {NoCount, 0, 2}
FrameCountValues == {NoCount, 2}
ErrorValues == {NULL, "", "engine error"}
\* trajectory_file_path split at '/': no path, or a path.
PathValues == {<<>>, <<"data", "t1">>}

DetailRows ==
    [status : StatusStrings, msd : JsonbValues,
     kinetic_energy : {v \in JsonbValues : ~JsonParseThrows(v)},
     frames : FrameCountValues, atoms : CountValues, error : ErrorValues,
     trajectory_file_path : PathValues]

\* count || '-'
Shown(count) == [shown |-> count \notin {NoCount, 0}, value |-> count]
\* A plot, where one is rendered.
NoPlot == [shown |-> FALSE, y |-> <<>>]
Plot(series) == [shown |-> TRUE, y |-> series]

\* trajectory_file_path.split('/').pop(), or null
LastSegment(path) == IF path = <<>> THEN NULL ELSE path[Len(path)]

convertToResultsFormat(row) ==
    [msd |-> IF row.msd # JsonbNull THEN Plot(JsonParse(row.msd)) ELSE NoPlot,
     kinetic_energy |-> IF row.kinetic_energy # JsonbNull
                        THEN Plot(JsonParse(row.kinetic_energy))
                        ELSE NoPlot,
     frames |-> row.frames,
     atoms |-> row.atoms,
     error |-> row.error,
     trajectory_file_id |-> LastSegment(row.trajectory_file_path)]
ConvertThrows(row) ==
    \/ row.msd # JsonbNull /\ JsonParseThrows(row.msd)
    \/ row.kinetic_energy # JsonbNull /\ JsonParseThrows(row.kinetic_energy)

\* ResultsVisualizer as first rendered (plots, not raw data or trajectory).
ResultsVisualizer(results) ==
    IF results.error \notin {NULL, ""}
    THEN [kind |-> "error", error |-> results.error]
    ELSE [kind |-> "results",
          msd |-> results.msd,
          kinetic_energy |-> results.kinetic_energy,
          frames |-> Shown(results.frames),
          atoms |-> Shown(results.atoms),
          trajectoryControls |-> results.trajectory_file_id \notin {NULL, ""}]
NoResultsView == [kind |-> "none"]

\* The page mounts the results view for a completed job only.
ResultsMounted_UnlessPending(row) == row.status # "pending"
ResultsMounted(row) == row.status = "completed"

LoadingView == [kind |-> "loading"]
ErrorView == [kind |-> "error"]
NotFoundView == [kind |-> "notFound"]
\* An exception while rendering: nothing of the page is shown.
CrashView == [kind |-> "crash"]

SimulationDetailPage(row) ==
    IF ResultsMounted(row) /\ ConvertThrows(row)
    THEN CrashView
    ELSE [kind |-> "detail",
          status |-> row.status,
          atoms |-> Shown(row.atoms),
          frames |-> Shown(row.frames),
          errorCard |-> row.error \notin {NULL, ""},
          results |-> IF ResultsMounted(row)
                      THEN ResultsVisualizer(convertToResultsFormat(row))
                      ELSE NoResultsView]

\* useQuery(GET_SIMULATION) delivers a row, no row, or an error; handleRefresh
\* asks again.
QueryResult(row) ==
    /\ simulation' = row
    /\ view' = SimulationDetailPage(row)

QueryNoRow ==
    /\ simulation' = Null
    /\ view' = NotFoundView

QueryError ==
    /\ simulation' = Null
    /\ view' = ErrorView

DetailInit ==
    /\ simulation = Null
    /\ view = LoadingView

Init ==
    /\ StoreInit /\ RunInit /\ PipelineInit /\ RoutesInit /\ CalcInit
    /\ WizardInit /\ DetailInit

-----------------------------------------------------------------------------
(* The specifications. *)

notRun == <<storeVars, pipelineVars, routeVars, calcVars, wizardVars, detailVars>>
notStore == <<runVars, pipelineVars, routeVars, calcVars, wizardVars, detailVars>>
notPipeline == <<storeVars, runVars, routeVars, calcVars, wizardVars, detailVars>>
notRoutes == <<storeVars, runVars, pipelineVars, calcVars, wizardVars, detailVars>>
notCalc == <<storeVars, runVars, pipelineVars, routeVars, wizardVars, detailVars>>
notWizard == <<storeVars, runVars, pipelineVars, routeVars, calcVars, detailVars>>
notDetail == <<storeVars, runVars, pipelineVars, routeVars, calcVars, wizardVars>>

NextRun ==
    \/ \E t \in Scripts, pf \in PotentialIdValues :
           ClientRun(t, pf) /\ UNCHANGED notRun
    \/ \E m \in Methods, c \in ContentValues, pf \in PotentialIdValues :
           DirectRequest(m, c, pf) /\ UNCHANGED notRun
    \/ FrameworkReject /\ UNCHANGED notRun
    \/ HandlerReceive /\ UNCHANGED notRun
    \/ HandlerResume /\ UNCHANGED notRun
    \/ \E code \in NetErrorCodes : HandlerNetError(code) /\ UNCHANGED notRun
    \/ \E st \in BackendErrorStatuses, d \in ErrorDatas :
           BackendRefuse(st, d) /\ UNCHANGED notRun
    \/ BackendStartEngine /\ UNCHANGED notRun
    \/ \E r \in EngineOutcomes : EngineExit(r) /\ UNCHANGED notRun
    \/ ClientReceive /\ UNCHANGED notRun
    \/ ClientNetError /\ UNCHANGED notRun
    \/ RunReset /\ UNCHANGED notRun

SpecRun == Init /\ [][NextRun]_vars

NextStore ==
    \/ \E f \in Texts, c \in Texts :
           CreatePotentialFile(f, c) /\ UNCHANGED notStore
    \/ \E id \in DOMAIN potential_files, f \in Texts, c \in Texts :
           UpdatePotentialFile(id, f, c) /\ UNCHANGED notStore
    \/ \E id \in DOMAIN potential_files :
           DeletePotentialFile(id) /\ UNCHANGED notStore
    \/ \E c \in Texts, pf \in {NoRef} \cup (1..MaxPotentialFiles) :
           CreateSimulationInput(c, pf) /\ UNCHANGED notStore
    \/ \E id \in DOMAIN simulation_inputs, c \in Texts,
          pf \in {NoRef} \cup (1..MaxPotentialFiles) :
           UpdateSimulationInput(id, c, pf) /\ UNCHANGED notStore
    \/ \E id \in DOMAIN simulation_inputs :
           DeleteSimulationInput(id) /\ UNCHANGED notStore
    \/ \E i \in 1..MaxInputs : CreateSimulation(i) /\ UNCHANGED notStore
    \/ \E id \in DOMAIN simulations, st \in StatusStrings :
           UpdateSimulationStatus(id, st) /\ UNCHANGED notStore
    \/ \E id \in DOMAIN simulations : DeleteSimulation(id) /\ UNCHANGED notStore

SpecStore == Init /\ [][NextStore]_vars

NextPipeline ==
    \/ \E p \in PipelinePotentialIds : UploadPotential(p) /\ UNCHANGED notPipeline
    \/ \E t \in Scripts, pf \in {NoPotential} \cup PipelinePotentialIds :
           SubmitJob(t, pf) /\ UNCHANGED notPipeline
    \/ \E j \in 1..MaxJobs : ResolvePotential(j) /\ UNCHANGED notPipeline
    \/ \E j \in 1..MaxJobs : SpawnEngine(j) /\ UNCHANGED notPipeline
    \/ \E j \in 1..MaxJobs, r \in EngineResults :
           EngineDone(j, r) /\ UNCHANGED notPipeline
    \/ \E j \in 1..MaxJobs : CancelJob(j) /\ UNCHANGED notPipeline
    \/ \E j \in 1..MaxJobs : CancelEffect(j) /\ UNCHANGED notPipeline
    \/ \E j \in 1..MaxJobs : AgeJob(j) /\ UNCHANGED notPipeline
    \/ \E ids \in {{}} \cup {{j} : j \in 1..MaxJobs} :
           Cleanup(ids) /\ UNCHANGED notPipeline

SpecPipeline == Init /\ [][NextPipeline]_vars

NextRoutes ==
    \/ \E r \in Routes, m \in Methods, a \in ArgValues :
           RouteRequest(r, m, a) /\ UNCHANGED notRoutes
    \/ RouteReceive /\ UNCHANGED notRoutes
    \/ \E ok \in BOOLEAN : UploadParsed(ok) /\ UNCHANGED notRoutes
    \/ \E st \in UpStatuses, d \in UpDatas \cup {UpText} :
           UpstreamAnswer(st, d) /\ UNCHANGED notRoutes
    \/ RouteResume /\ UNCHANGED notRoutes
    \/ RouteNetError /\ UNCHANGED notRoutes
    \/ RouteReset /\ UNCHANGED notRoutes
    \/ Redeploy /\ UNCHANGED notRoutes

SpecRoutes == Init /\ [][NextRoutes]_vars

NextCalc ==
    \/ \E m \in 1..MaxAtoms, asc \in BOOLEAN, p \in Positions, v \in Velocities :
           ParseFrame(m, asc, p, v) /\ UNCHANGED notCalc
    \/ Calculate /\ UNCHANGED notCalc
    \/ CalcReset /\ UNCHANGED notCalc

SpecCalc == Init /\ [][NextCalc]_vars

\* All five API route handlers, serving one request at a time.
NextHandlers ==
    \/ rReq = Null /\ rpc = "idle" /\ NextRun
    \/ httpReq = Null /\ cpc = "idle" /\ hpc = "idle" /\ NextRoutes

SpecHandlers == Init /\ [][NextHandlers]_vars

NextWizard ==
    \/ \E s \in 1..4 : ClickStep(s) /\ UNCHANGED notWizard
    \/ \E b \in NextButtons : ClickNext(b) /\ UNCHANGED notWizard
    \/ goToPreviousStep /\ UNCHANGED notWizard
    \/ ClickNewSimulation /\ UNCHANGED notWizard
    \/ toggleChat /\ UNCHANGED notWizard
    \/ \E c \in ChatTexts : handleUseInput(c) /\ UNCHANGED notWizard
    \/ handleSubmit /\ UNCHANGED notWizard
    \/ \E c \in GeneratedTexts : GenerateDone(c) /\ UNCHANGED notWizard
    \/ GenerateFail /\ UNCHANGED notWizard
    \/ StartUpload /\ UNCHANGED notWizard
    \/ \E f \in FileIds : handleFileUploaded(f) /\ UNCHANGED notWizard
    \/ UploadFail /\ UNCHANGED notWizard
    \/ StartEdit /\ UNCHANGED notWizard
    \/ \E t \in WizardTexts : TypeText(t) /\ UNCHANGED notWizard
    \/ handleSaveEdit /\ UNCHANGED notWizard
    \/ handleCancelEdit /\ UNCHANGED notWizard
    \/ \E b \in RunButtons : handleRunSimulation(b) /\ UNCHANGED notWizard
    \/ \E i \in 1..MaxInFlight, o \in RunOutcomes :
           RunResolve(i, o) /\ UNCHANGED notWizard

SpecWizard == Init /\ [][NextWizard]_vars

NextDetail ==
    \/ \E row \in DetailRows : QueryResult(row) /\ UNCHANGED notDetail
    \/ QueryNoRow /\ UNCHANGED notDetail
    \/ QueryError /\ UNCHANGED notDetail

SpecDetail == Init /\ [][NextDetail]_vars

\* A run request that was sent is answered or fails.
FairWizard ==
    SpecWizard
        /\ WF_vars(\E i \in 1..MaxInFlight, o \in RunOutcomes :
                       RunResolve(i, o) /\ UNCHANGED notWizard)

\* A cancellation that was asked for takes effect.
FairPipeline ==
    SpecPipeline /\ \A j \in 1..MaxJobs : WF_vars(CancelEffect(j) /\ UNCHANGED notPipeline)

-----------------------------------------------------------------------------
(* The claims. *)

\* The two shapes of a run result.
IsSuccess(b) ==
    /\ b.msd # Undefined
    /\ b.kinetic_energy # Undefined
    /\ b.frames # Undefined
    /\ b.atoms # Undefined
    /\ b.trajectory_file_id # Undefined
    /\ b.error = Undefined
IsFailure(b) ==
    /\ Truthy(b.error)
    /\ b.msd = Undefined
    /\ b.kinetic_energy = Undefined
    /\ b.frames = Undefined
    /\ b.atoms = Undefined
    /\ b.trajectory_file_id = Undefined

C3_TerminalRowsPopulated ==
    \A id \in DOMAIN simulations :
        LET r == simulations[id]
        IN  /\ r.status = "completed"
                => /\ r.msd # NULL
                   /\ r.kinetic_energy # NULL
                   /\ r.frames # NULL
                   /\ r.atoms # NULL
                   /\ r.error = NULL
            /\ r.status = "failed"
                => /\ r.error \notin {NULL, ""}
                   /\ r.msd = NULL
                   /\ r.kinetic_energy = NULL

\* C4, as stated: once a job is completed or failed, no step other than its
\* deletion changes its row.
C4_TerminalRowsFrozen ==
    [][\A id \in DOMAIN simulations :
           (simulations[id].status \in TerminalStatuses
                /\ id \in DOMAIN simulations')
               => simulations'[id] = simulations[id]]_vars

\* C5, as stated: every stored job's status is one of pending, running,
\* completed, failed.
C5_StatusInEnum ==
    \A id \in DOMAIN simulations : simulations[id].status \in StatusValues

\* C6: a POST whose script is empty is answered 400 by the handler at once:
\* it is never forwarded to the backend and no engine run starts for it; the
\* client resolves to the validation error (or, having lost its connection
\* before the answer, to its own failure).
C6_EmptyScriptRejected ==
    (httpReq # Null /\ httpReq.method = "POST"
        /\ httpReq.input_content = StringContent(<<>>))
        => /\ hpc # "awaiting"
           /\ backendReq = Null
           /\ backendCalls = 0
           /\ engine = "none"
           /\ (hres # Null /\ hres.by = "handler")
                  => /\ hres.status = 400
                     /\ hres.body = ErrorJson(MsgInputRequired)
           /\ cpc = "done"
                  => clientResult \in {ErrorJson(MsgInputRequired),
                                       ErrorJson(MsgClientFailed)}

\* C6's case: the client ran an empty script and got the validation error.
C6_Witness ==
    /\ httpReq # Null
    /\ httpReq.input_content = StringContent(<<>>)
    /\ hres # Null
    /\ hres.status = 400
    /\ cpc = "done"
    /\ clientResult = ErrorJson(MsgInputRequired)

\* C7: a job whose potential-file id does not resolve fails with
\* ResolutionError and no engine subprocess is ever spawned for it: it is
\* never running, and every job that was spawned had its potential resolved.
C7_ResolutionBeforeSpawn ==
    \A j \in DOMAIN jobs :
        /\ (~Resolves(jobs[j].potential_file_id) \/ jobs[j].error = "ResolutionError")
               => /\ j \notin spawned
                  /\ j \notin procs
                  /\ jobs[j].status \in {"pending", "failed"}
                  /\ ~jobs[j].resolved
        /\ j \in spawned => jobs[j].resolved

\* C7's case: a job that named an unknown potential file has failed with
\* ResolutionError.
C7_Witness ==
    \E j \in DOMAIN jobs :
        /\ jobs[j].potential_file_id # NoPotential
        /\ jobs[j].status = "failed"
        /\ jobs[j].error = "ResolutionError"
        /\ j \notin spawned

\* C8, as stated: no step removes the row of a job that is pending or running.
C8_ActiveRowsNeverDeleted ==
    [][\A id \in DOMAIN simulations :
           id \notin DOMAIN simulations'
               => simulations[id].status \notin {"pending", "running"}]_vars

\* C9: a cleanup call that directly follows a cleanup call with the same
\* arguments removes nothing, counts zero removed artifacts, and leaves jobs
\* and artifacts as the first call left them.
C9_CleanupIdempotent ==
    [][(lastOp = "cleanup" /\ lastOp' = "cleanup"
            /\ lastCleanup'.ids = lastCleanup.ids)
          => /\ lastCleanup'.count = 0
             /\ jobs' = jobs
             /\ artifacts' = artifacts]_vars

\* C9's case: the second of two like cleanup calls, the first of which
\* removed an artifact.
C9_Witness ==
    /\ lastOp = "cleanup"
    /\ lastCleanup.repeat
    /\ lastCleanup.count = 0

\* C10: a job whose cancellation took effect is failed with the reason
\* "cancelled" and has no subprocess, and every job whose cancellation was
\* asked for eventually is failed.
C10_CancelledJobsFail ==
    /\ [](\A j \in cancelRequested :
              jobs[j].status = "failed"
                  => jobs[j].error = "cancelled" /\ j \notin procs)
    /\ \A j \in 1..MaxJobs :
           (j \in cancelRequested)
               ~> (j \in DOMAIN jobs /\ jobs[j].status = "failed")

\* C10's case: a running job was cancelled and is now failed, its subprocess
\* gone.
C10_Witness ==
    \E j \in cancelRequested :
        /\ j \in spawned
        /\ j \notin procs
        /\ jobs[j].status = "failed"
        /\ jobs[j].error = "cancelled"

C12_NoAutomaticRetry ==
    /\ [](backendCalls <= 1)
    /\ [][((engine' = "running" /\ engine # "running")
                => (engine = "none" /\ backendCalls = 1))
            /\ (hres # Null => backendCalls' <= backendCalls)]_vars

\* C12's case: the one backend call of a request failed, the engine having
\* run once, and the client was told of the failure.
C12_Witness ==
    /\ backendCalls = 1
    /\ engine = "finished"
    /\ backendResp # Null
    /\ backendResp.status # 200
    /\ hres # Null
    /\ hres.status = backendResp.status
    /\ cpc = "done"
    /\ IsFailure(clientResult)

\* C13: whenever the backend answers a trajectory fetch with 404, the
\* trajectory handler's answer is status 404 with a JSON error body, never 200
\* and never trajectory text.
C13_UnknownTrajectoryIs404 ==
    (rReq # Null /\ rReq.route = "trajectory" /\ rUp # Null /\ rUp.status = 404
        /\ rres # Null)
        => /\ rres.status = 404
           /\ rres.kind = "json"
           /\ Truthy(rres.error)

\* C13's case: the backend answered 404 and the handler has responded.
C13_Witness ==
    /\ rReq # Null
    /\ rReq.route = "trajectory"
    /\ rUp # Null
    /\ rUp.status = 404
    /\ rpc = "responded"
    /\ rres.status = 404
    /\ rres.error = "Backend API error: Unknown error"

\* C19: each of the five API route handlers answers a request whose method is
\* not its one allowed method (GET for trajectory, POST for the others) with
\* 405 "Method not allowed", and for such a request it parses no body,
\* validates nothing, reads no configuration and makes no outbound call.
C19_WrongMethodIs405 ==
    /\ (httpReq # Null /\ httpReq.method # "POST")
           => /\ hpc # "awaiting"
              /\ backendReq = Null
              /\ backendCalls = 0
              /\ (hres # Null /\ hres.by = "handler")
                     => (hres.status = 405 /\ hres.body = ErrorJson(MsgMethod))
    /\ (rReq # Null
           /\ rReq.method # (IF rReq.route = "trajectory" THEN "GET" ELSE "POST"))
           => /\ rpc \in {"idle", "responded"}
              /\ rTrace = {}
              /\ rUp = Null
              /\ rres # Null => rres = JsonError(405, MsgMethod)

\* C19's case: a POST to the trajectory route was answered 405.
C19_Witness ==
    /\ rReq # Null
    /\ rReq.route = "trajectory"
    /\ rReq.method = "POST"
    /\ rpc = "responded"
    /\ rres.status = 405

\* C14, as stated: once a potential file is created, no step changes its
\* filename or content.
C14_PotentialFileImmutable ==
    [][\A id \in DOMAIN potential_files :
           id \in DOMAIN potential_files'
               => potential_files'[id] = potential_files[id]]_vars

\* C15, as stated: once a simulation input is created, and in particular once
\* a job references it, no step changes its content or its potential-file
\* reference.
C15_SimulationInputImmutable ==
    [][\A id \in DOMAIN simulation_inputs :
           id \in DOMAIN simulation_inputs'
               => simulation_inputs'[id] = simulation_inputs[id]]_vars

\* C16: every stored job references a stored simulation input, and every
\* simulation input with a potential-file reference references a stored
\* potential file.
C16_ReferentialIntegrity ==
    /\ \A s \in DOMAIN simulations :
           simulations[s].input_id \in DOMAIN simulation_inputs
    /\ \A i \in DOMAIN simulation_inputs :
           simulation_inputs[i].potential_file_id # NoRef
               => simulation_inputs[i].potential_file_id \in DOMAIN potential_files

\* C16's case: a job references an input that references a potential file, so
\* that deleting the input or the file is refused.
C16_Witness ==
    \E s \in DOMAIN simulations :
        LET i == simulations[s].input_id
        IN  /\ i \in DOMAIN simulation_inputs
            /\ simulation_inputs[i].potential_file_id \in DOMAIN potential_files
            /\ ~ENABLED DeleteSimulationInput(i)
            /\ ~ENABLED DeletePotentialFile(simulation_inputs[i].potential_file_id)

\* Equality of two fractions.
SameValue(a, b) == a[1] * b[2] = b[1] * a[2]

\* C17: for a trajectory of N frames the MSD series and the kinetic-energy
\* series both have N entries, the MSD of frame 0 is 0, and the results
\* view's time axis 0..len(msd)-1 has one index for every kinetic-energy
\* value.
C17_SeriesLengths ==
    calcOut # Null
        => /\ Len(calcOut.msd) = Len(traj)
           /\ Len(calcOut.kinetic_energy) = Len(traj)
           /\ calcOut.frames = Len(traj)
           /\ SameValue(calcOut.msd[1], <<0, 1>>)
           /\ Len(TimeSteps(calcOut)) = Len(calcOut.kinetic_energy)
           /\ \A i \in 1..Len(calcOut.kinetic_energy) : TimeSteps(calcOut)[i] = i - 1

\* C17's case: the observables of a trajectory of three frames and two atoms,
\* with a non-zero kinetic energy in its last frame, were computed.
C17_Witness ==
    /\ calcOut # Null
    /\ Len(traj) = 3
    /\ calcOut.atoms = 2
    /\ ~SameValue(calcOut.kinetic_energy[3], <<0, 1>>)

\* The scenario's trajectory: two atoms at rest in velocity over three
\* frames, atom 1 at the origin and atom 2 at x = 0, 1, 2, the records of
\* each frame in either order.
IsScenario(t) ==
    /\ Len(t) = 3
    /\ \A k \in 1..3 :
           /\ Len(t[k]) = 2
           /\ \E i \in 1..2 : t[k][i] = [id |-> 1, pos |-> Origin, vel |-> Origin]
           /\ \E i \in 1..2 :
                  t[k][i] = [id |-> 2, pos |-> <<k - 1, 0, 0>>, vel |-> Origin]

\* C18: for the scenario's trajectory the calculator returns
\* msd = [0, 0.5, 2.0] and kinetic energy = [0, 0, 0], whatever the order of
\* the atom records within each frame.
C18_ScenarioValues ==
    (calcOut # Null /\ IsScenario(traj))
        => /\ Len(calcOut.msd) = 3
           /\ SameValue(calcOut.msd[1], <<0, 1>>)
           /\ SameValue(calcOut.msd[2], <<1, 2>>)
           /\ SameValue(calcOut.msd[3], <<2, 1>>)
           /\ Len(calcOut.kinetic_energy) = 3
           /\ \A k \in 1..3 : SameValue(calcOut.kinetic_energy[k], <<0, 1>>)

\* C18's case: the scenario with the records of its second frame in the
\* other order than those of its first, computed.
C18_Witness ==
    /\ calcOut # Null
    /\ IsScenario(traj)
    /\ traj[1][1].id = 1
    /\ traj[2][1].id = 2

\* A read_data token that no "#" precedes on its line.
HasActiveReadData(text) ==
    \E i \in 1..Len(text) :
        /\ text[i] = "read_data"
        /\ \A j \in 1..(i - 1) :
               text[j] = "#" => \E k \in (j + 1)..(i - 1) : text[k] = "\n"

\* C20, as stated: a POST whose script has an active (uncommented) read_data
\* command is answered 400 by the handler and never forwarded to the backend,
\* whatever else the script contains.
C20_ActiveReadDataRejected ==
    (httpReq # Null /\ httpReq.method = "POST"
        /\ httpReq.input_content.type = "string"
        /\ HasActiveReadData(httpReq.input_content.text))
        => /\ backendReq = Null
           /\ backendCalls = 0
           /\ (hres # Null /\ hres.by = "handler") => hres.status = 400

\* C21: when the backend answers a proxied request with an error status, the
\* proxy handler (simulate, upload-potential, trajectory) answers with that
\* same status and a non-empty error string, and runLAMMPSSimulation resolves
\* to a result whose only populated field is a non-empty error.
C21_BackendErrorPassedOn ==
    /\ (hres # Null /\ hres.by = "handler" /\ hres.code = ""
           /\ backendResp # Null /\ backendResp.status # 200)
           => /\ hres.status = backendResp.status
              /\ Truthy(hres.body.error)
              /\ cpc = "done" => IsFailure(clientResult)
    /\ (rReq # Null /\ rReq.route \in {"upload-potential", "trajectory"}
           /\ rUp # Null /\ rUp.status # 200 /\ rres # Null)
           => /\ rres.status = rUp.status
              /\ Truthy(rres.error)

\* C21's case: the backend refused a run with 400 and no detail, the handler
\* passed the status on, and the client holds the error alone.
C21_Witness ==
    /\ backendResp # Null
    /\ backendResp.status = 400
    /\ hres # Null
    /\ hres.status = 400
    /\ cpc = "done"
    /\ clientResult = ErrorJson("Backend API error: Unknown error")

\* C22: the body posted to the backend carries the request's script
\* unchanged, and carries the request's potential_file_id, with the same
\* value, exactly when the request carried a (non-empty) one.
C22_RequestForwardedUnchanged ==
    backendReq # Null
        => /\ httpReq # Null
           /\ httpReq.input_content.type = "string"
           /\ backendReq.input_content = httpReq.input_content.text
           /\ httpReq.potential_file_id \in PotentialIds
                  => backendReq.potential_file_id = httpReq.potential_file_id
           /\ httpReq.potential_file_id \notin PotentialIds
                  => backendReq.potential_file_id = Undefined

\* C22's case: a run with a potential file was forwarded.
C22_Witness ==
    /\ backendReq # Null
    /\ cpc = "waiting"
    /\ backendReq.input_content = <<"run">>
    /\ backendReq.potential_file_id = "p2"


\* C23: every run started from the wizard ends its loading state: once a run
\* request is in flight, whatever it resolves to, the wizard comes to a state
\* with isLoading false, simulationResults set and step 4 shown.
C23_RunTerminatesLoading ==
    (runsInFlight # <<>>)
        ~> (/\ runsInFlight = <<>>
            /\ ~isLoading
            /\ simulationResults # Null
            /\ currentStep = 4)

\* A run that failed without a response has resolved: the wizard is on step 4
\* with the error as its results and the flag lowered.
C23_Witness ==
    /\ wizardOp = "resolved"
    /\ simulationResults = ErrorJson(MsgClientFailed)
    /\ ~isLoading
    /\ currentStep = 4
    /\ runsInFlight = <<>>

\* C24: outside editing mode the editor's buffer equals the committed script.
\* Save commits the buffer and leaves editing mode; Cancel keeps the script,
\* resets the buffer to it and leaves editing mode; any change of the script
\* overwrites the buffer; Run submits the committed script, not the buffer.
C24_BufferFollowsScript ==
    /\ [](~isEditing => editableContent = inputContent)
    /\ [][/\ wizardOp' = "save"
               => inputContent' = editableContent /\ ~isEditing'
          /\ wizardOp' = "cancel"
               => /\ inputContent' = inputContent
                  /\ editableContent' = inputContent
                  /\ ~isEditing'
          /\ inputContent' # inputContent
               => editableContent' = inputContent'
          /\ wizardOp' = "run"
               => /\ runsInFlight' # <<>>
                  /\ runsInFlight'[Len(runsInFlight')].input_content = inputContent
                  /\ inputContent' = inputContent]_vars

\* A run was started in editing mode with unsaved text in the buffer, and the
\* request carries the committed script.
C24_Witness ==
    /\ wizardOp = "run"
    /\ isEditing
    /\ editableContent = "in.b"
    /\ inputContent = "in.a"
    /\ runsInFlight = <<RunRequest("in.a", NoFile)>>

\* C26: at most one run request of the page is in flight, and while a run or
\* a generation is outstanding isLoading is set and neither run button is
\* enabled, whatever the user, the chat and the requests do in between.
C26_OneRunInFlight ==
    /\ Len(runsInFlight) <= 1
    /\ (runsInFlight # <<>> \/ generating)
           => /\ isLoading
              /\ \A b \in RunButtons : ~RunEnabled(b)
              /\ \A b \in RunButtons : ~ENABLED handleRunSimulation(b)

\* A run is in flight on step 3, where both run buttons show, after the chat
\* replaced the script.
C26_Witness ==
    /\ Len(runsInFlight) = 1
    /\ wizardOp = "chatInput"
    /\ currentStep = 3
    /\ inputContent # runsInFlight[1].input_content

\* C27: currentStep is always one of 1, 2, 3, 4, and on step 4 the wizard
\* holds results, so the results step is never shown empty.
C27_ResultsStepHasResults ==
    /\ currentStep \in 1..4
    /\ currentStep = 4 => simulationResults # Null

\* The wizard came back to step 4 through the step indicator, with the run's
\* results still held.
C27_Witness ==
    /\ currentStep = 4
    /\ wizardOp = "indicator"
    /\ simulationResults = SuccessData

\* C28, as stated: results the wizard holds were produced by running the
\* script now held in inputContent; a change of the script clears them, and
\* a run that resolves after the script changed does not install its results.
C28_ResultsOfCurrentScript ==
    simulationResults # Null => resultsOf = inputContent

\* C29, as stated: a run request carries a potential-file id only when the
\* selector shows an uploaded file with "use potential file" checked, and the
\* id is then that file's.
C29_RunUsesSelectedFile ==
    [][wizardOp' = "run"
           => LET r == runsInFlight'[Len(runsInFlight')]
              IN  r.potential_file_id # Undefined
                      => /\ uploadedFile # NoFile
                         /\ usePotentialFile
                         /\ r.potential_file_id = uploadedFile]_vars

\* What a rendering of the detail page shows.
RendersSeries(v) ==
    /\ v.kind = "detail"
    /\ v.results.kind = "results"
    /\ v.results.msd.shown \/ v.results.kinetic_energy.shown
RendersResultCounts(v) ==
    /\ v.kind = "detail"
    /\ v.results.kind = "results"
RendersTrajectoryControls(v) ==
    /\ v.kind = "detail"
    /\ v.results.kind = "results"
    /\ v.results.trajectoryControls
RendersBasicCounts(v) ==
    /\ v.kind = "detail"
    /\ v.atoms.shown \/ v.frames.shown

=============================================================================
